---- MODULE Spec2Model ----
(***************************************************************************)
(* A model of cooler's query layer (cooler/api.py): the table selector     *)
(* get(), region resolution (_region_to_extent), the bin annotator         *)
(* annotate() and the matrix selector matrix(); and of the extractchrom    *)
(* command (cooler/cli/extractchrom.py), which copies the pixels of one    *)
(* chromosome into a new container in two chunked passes.                  *)
(*                                                                         *)
(* Conventions.  Python sequences are 0-based, TLA+ sequences 1-based:     *)
(* At(s, i) reads element i of a Python sequence.  An optional value       *)
(* (None, or a NaN produced by a left join that found no partner) is a     *)
(* sequence of length 0 or 1: None == << >>, Some(x) == <<x>>.  Weights    *)
(* and counts are small naturals; their products are exact.                *)
(***************************************************************************)
EXTENDS Integers, Sequences, FiniteSets, TLC

VARIABLES
    chromsizes,    \* chroms/length, position = chromosome id + 1
    binsize,       \* info['bin-size']: Some(w) for a uniform container, None otherwise
    bins,          \* bins table: sequence of [chrom, start, end], position = bin id + 1
    weight,        \* bins/weight: None when the column is absent, Some(sequence) otherwise
    pixels,        \* pixels table: sequence of [bin1_id, bin2_id, count]
    chrom_offset,  \* indexes/chrom_offset
    bin1_offset,   \* indexes/bin1_offset
    call,          \* the last operation and its arguments
    ret,           \* what the last operation returned or raised
    pc,            \* extractchrom: the statement it is at, "none" when it does not run
    chromosome,    \* extractchrom: the id of the chromosome to keep
    chunksize,     \* extractchrom: the number of pixel rows a chunk holds
    count,         \* extractchrom: the pixel rows the running pass has read
    chrom_count,   \* extractchrom: the rows to keep, counted by the first pass
    current_kept_pos,  \* extractchrom: the rows of the output written so far
    chunks,        \* extractchrom: the row ranges [lo, hi) the running pass has read
    dest           \* extractchrom: the container it writes

store == <<chromsizes, binsize, bins, weight, pixels, chrom_offset, bin1_offset>>

\* the locals of extractchrom and its output
extract == <<pc, chromosome, chunksize, count, chrom_count, current_kept_pos, chunks, dest>>

vars == <<store, call, ret, extract>>

-----------------------------------------------------------------------------
(* Bounds of the model *)

MaxLen == 4        \* longest chromosome, in base pairs
MaxBins == 3       \* most bins of a container queried by matrix()
MaxPixels == 2     \* most stored pixels of a container queried by matrix()
Overhang == 1      \* how far past the last bin a matrix query may reach
MaxChunk == 3      \* largest chunk size of extractchrom, in pixel rows

ChromNames == <<"chr1", "chr2">>

-----------------------------------------------------------------------------
(* Python and numpy primitives *)

None == << >>
Some(x) == <<x>>
IsNone(m) == m = << >>
Val(m) == m[1]

Min(a, b) == IF a <= b THEN a ELSE b
Max(a, b) == IF a >= b THEN a ELSE b

At(s, i) == s[i + 1]

Range(s) == {s[k] : k \in 1..Len(s)}

SetMin(S) == CHOOSE x \in S : \A y \in S : x <= y
SetMax(S) == CHOOSE x \in S : \A y \in S : x >= y

RECURSIVE SortedSeq(_)
SortedSeq(S) == IF S = {} THEN << >>
                ELSE LET m == SetMin(S) IN <<m>> \o SortedSeq(S \ {m})

RECURSIVE Concat(_)
Concat(ss) == IF ss = << >> THEN << >> ELSE Head(ss) \o Concat(Tail(ss))

\* slice.indices(n) for a step of 1: where s[lo:hi] starts and stops
SliceBound(x, n) == IF x < 0 THEN Max(x + n, 0) ELSE Min(x, n)
SliceLo(lo, n) == IF IsNone(lo) THEN 0 ELSE SliceBound(Val(lo), n)
SliceHi(hi, n) == IF IsNone(hi) THEN n ELSE SliceBound(Val(hi), n)

\* s[lo:hi] of a numpy array or an h5py dataset; lo, hi optional integers
PySlice(s, lo, hi) ==
    LET a == SliceLo(lo, Len(s))
        b == SliceHi(hi, Len(s))
    IN  IF b <= a THEN << >> ELSE SubSeq(s, a + 1, b)

\* np.searchsorted(a, v, side) on a sorted array
SearchSortedLeft(a, v) == Cardinality({k \in 1..Len(a) : a[k] < v})
SearchSortedRight(a, v) == Cardinality({k \in 1..Len(a) : a[k] <= v})

\* int(np.floor(x / w)) and int(np.ceil(x / w)) for x >= 0, w > 0
FloorDiv(x, w) == x \div w
CeilDiv(x, w) == (x + w - 1) \div w

-----------------------------------------------------------------------------
(* The stored container *)

\* the bins of one chromosome, cut at the given interior positions
ChromBins(cid, len, cuts) ==
    LET starts == SortedSeq({0} \cup cuts)
    IN  [k \in 1..Len(starts) |->
            [chrom |-> cid,
             start |-> starts[k],
             end   |-> IF k < Len(starts) THEN starts[k + 1] ELSE len]]

BinTable(sizes, cuts) ==
    Concat([c \in 1..Len(sizes) |-> ChromBins(c - 1, sizes[c], cuts[c])])

\* the cut positions of a chromosome binned at a fixed width w
UniformCuts(len, w) == {p \in 1..(len - 1) : p % w = 0}

\* indexes/chrom_offset: the first bin id of each chromosome, then the bin count
ChromOffset(tbl, nchroms) ==
    [c \in 1..(nchroms + 1) |-> Cardinality({k \in 1..Len(tbl) : tbl[k].chrom < c - 1})]

\* indexes/bin1_offset: the first pixel row of each bin1_id, then the row count
Bin1Offset(pix, nbins) ==
    [b \in 1..(nbins + 1) |-> Cardinality({k \in 1..Len(pix) : pix[k].bin1_id < b - 1})]

NBins == Len(bins)

-----------------------------------------------------------------------------
(* Region resolution *)

\* the first value _region_to_extent yields: the bin holding the region's start
RegionLoSearchMissingMinusOne(cid, start) ==
    LET chrom_lo == At(chrom_offset, cid)
        chrom_hi == At(chrom_offset, cid + 1)
        chrom_bins == [k \in 1..(chrom_hi - chrom_lo) |-> bins[chrom_lo + k].start]
    IN  chrom_lo + SearchSortedRight(chrom_bins, start)

RegionLoSearch(cid, start) ==
    LET chrom_lo == At(chrom_offset, cid)
        chrom_hi == At(chrom_offset, cid + 1)
        chrom_bins == [k \in 1..(chrom_hi - chrom_lo) |-> bins[chrom_lo + k].start]
    IN  chrom_lo + SearchSortedRight(chrom_bins, start) - 1

\* the second value: one past the last bin that starts before the region's end
RegionHiSearch(cid, end) ==
    LET chrom_lo == At(chrom_offset, cid)
        chrom_hi == At(chrom_offset, cid + 1)
        chrom_bins == [k \in 1..(chrom_hi - chrom_lo) |-> bins[chrom_lo + k].start]
    IN  chrom_lo + SearchSortedLeft(chrom_bins, end)

RegionLoUniform(cid, start, w) == At(chrom_offset, cid) + FloorDiv(start, w)

RegionHiUniformNextChrom(cid, end, w) == At(chrom_offset, cid + 1) + CeilDiv(end, w)

RegionHiUniform(cid, end, w) == At(chrom_offset, cid) + CeilDiv(end, w)

\* region_to_extent(h5, chrom_ids, (chrom, start, end), binsize)
region_to_extent(cid, start, end, bsz) ==
    IF ~IsNone(bsz)
    THEN <<RegionLoUniform(cid, start, Val(bsz)), RegionHiUniform(cid, end, Val(bsz))>>
    ELSE <<RegionLoSearch(cid, start), RegionHiSearch(cid, end)>>

\* extractchrom does not run
NoExtract ==
    /\ pc = "none"
    /\ chromosome = 0
    /\ chunksize = 1
    /\ count = 0
    /\ chrom_count = 0
    /\ current_kept_pos = 0
    /\ chunks = << >>
    /\ dest = << >>

\* The store is never written: a call made after another reaches only the
\* states a first call reaches, so every behaviour makes one call.
Idle == call.op = "none"

ValidRegion(cid, start, end) ==
    /\ cid \in 0..(Len(chromsizes) - 1)
    /\ 0 <= start /\ start <= end /\ end <= At(chromsizes, cid)

\* Cooler.extent(region): region_to_extent without a bin size
Extent(cid, start, end) ==
    /\ ValidRegion(cid, start, end)
    /\ call' = [op |-> "extent", cid |-> cid, start |-> start, end |-> end, binsize |-> None]
    /\ ret' = [ok |-> TRUE, value |-> region_to_extent(cid, start, end, None)]
    /\ UNCHANGED <<store, extract>>

\* region_to_extent called with the container's bin size
ExtentBinsize(cid, start, end) ==
    /\ ValidRegion(cid, start, end)
    /\ ~IsNone(binsize)
    /\ call' = [op |-> "extent", cid |-> cid, start |-> start, end |-> end, binsize |-> binsize]
    /\ ret' = [ok |-> TRUE, value |-> region_to_extent(cid, start, end, binsize)]
    /\ UNCHANGED <<store, extract>>

\* containers for region resolution: every binning of up to two chromosomes
InitRegion ==
    \E n \in 1..Len(ChromNames) :
    \E sizes \in [1..n -> 1..MaxLen] :
    \E bsz \in {None} \cup {Some(w) : w \in 1..MaxLen} :
    \E cuts \in [1..n -> SUBSET (1..(MaxLen - 1))] :
        /\ \A c \in 1..n :
              IF IsNone(bsz) THEN cuts[c] \subseteq 1..(sizes[c] - 1)
              ELSE cuts[c] = UniformCuts(sizes[c], Val(bsz))
        /\ chromsizes = sizes
        /\ binsize = bsz
        /\ bins = BinTable(sizes, cuts)
        /\ weight = None
        /\ pixels = << >>
        /\ chrom_offset = ChromOffset(BinTable(sizes, cuts), n)
        /\ bin1_offset = Bin1Offset(<< >>, Len(BinTable(sizes, cuts)))
        /\ call = [op |-> "none"]
        /\ ret = [ok |-> TRUE, value |-> << >>]
        /\ NoExtract

NextRegion ==
    /\ Idle
    /\ \E cid \in 0..(Len(ChromNames) - 1), start \in 0..MaxLen, end \in 0..MaxLen :
        \/ Extent(cid, start, end)
        \/ ExtentBinsize(cid, start, end)

SpecRegion == InitRegion /\ [][NextRegion]_vars

-----------------------------------------------------------------------------
(* Table selection *)

\* get(h5, lo, hi, [field]): the rows col[lo:hi] of one column as a data frame
\* whose index is arange(lo, lo + len); a row is [idx, val]
get(col, lo, hi) ==
    LET data == PySlice(col, Some(lo), hi)
    IN  [k \in 1..Len(data) |-> [idx |-> lo + k - 1, val |-> data[k]]]

-----------------------------------------------------------------------------
(* The annotator *)

Column(df, name) == [k \in 1..Len(df) |-> df[k][name]]

\* bin.min() and bin.max() + 1 of a bin id column, 0 for the NaN of an empty one
ColumnLo(df, key) == IF df = << >> THEN 0 ELSE SetMin(Range(Column(df, key)))
ColumnHi(df, key) == IF df = << >> THEN 0 ELSE SetMax(Range(Column(df, key))) + 1

\* bins[lo:hi] of a data frame whose index holds integers: rows by position
FrameSlice(frame, lo, hi) == PySlice(frame, Some(lo), Some(hi))

\* the frame annotate() joins against: bins[lo:hi] when bins is longer than
\* pixels, bins[:] otherwise
JoinTable(df, frame, key) ==
    IF Len(frame) > Len(df)
    THEN FrameSlice(frame, ColumnLo(df, key), ColumnHi(df, key))
    ELSE frame

\* pixels.merge(right, how='inner', left_on=key, right_index=True)
InnerMerge(df, right, key, name) ==
    Concat([k \in 1..Len(df) |->
        LET found == SelectSeq(right, LAMBDA r : r.idx = df[k][key])
        IN  [m \in 1..Len(found) |-> df[k] @@ (name :> Some(found[m].val))]])

\* pixels.merge(right, how='left', left_on=key, right_index=True): every row of
\* pixels, in order, once per row of right labelled with its key, or once with
\* NaN when right has no such row
LeftMerge(df, right, key, name) ==
    Concat([k \in 1..Len(df) |->
        LET found == SelectSeq(right, LAMBDA r : r.idx = df[k][key])
        IN  IF found = << >>
            THEN <<df[k] @@ (name :> None)>>
            ELSE [m \in 1..Len(found) |-> df[k] @@ (name :> Some(found[m].val))]])

\* drop(['bin1_id', 'bin2_id'], axis=1)
DropBinIds(df) ==
    [k \in 1..Len(df) |->
        [f \in (DOMAIN df[k]) \ {"bin1_id", "bin2_id"} |-> df[k][f]]]

\* annotate(pixels, bins, replace): the columns of bins joined on bin1_id as
\* val1 and on bin2_id as val2
annotate(df, frame, replace) ==
    LET df1 == LeftMerge(df, JoinTable(df, frame, "bin1_id"), "bin1_id", "val1")
        df2 == LeftMerge(df1, JoinTable(df1, frame, "bin2_id"), "bin2_id", "val2")
    IN  IF replace THEN DropBinIds(df2) ELSE df2

-----------------------------------------------------------------------------
(* Reading the upper triangle *)

\* TriuReader.query(i0, i1, j0, j1): the stored pixels with bin1_id in [i0, i1),
\* found through bin1_offset, and bin2_id in [j0, j1); bounds past the last bin
\* are clamped
TriuQuery(i0, i1, j0, j1) ==
    LET edges == PySlice(bin1_offset, Some(i0), Some(i1 + 1))
        p0 == edges[1]
        p1 == edges[Len(edges)]
    IN  SelectSeq(PySlice(pixels, Some(p0), Some(p1)),
                  LAMBDA t : j0 <= t.bin2_id /\ t.bin2_id < j1)

Swap(ts) == [k \in 1..Len(ts) |->
                [bin1_id |-> ts[k].bin2_id, bin2_id |-> ts[k].bin1_id, count |-> ts[k].count]]

NoDiag(ts) == SelectSeq(ts, LAMBDA t : t.bin1_id # t.bin2_id)

\* the number of reads a query issues: none for an empty rectangle
TriuReads(i0, i1, j0, j1) == IF i0 = i1 \/ j0 = j1 THEN 0 ELSE 1

\* the number of reads query_rect issues
RectReads(i0, i1, j0, j1) ==
    IF i1 <= j0 \/ <<i0, i1>> = <<j0, j1>>
    THEN TriuReads(i0, i1, j0, j1)
    ELSE TriuReads(i0, i1, j0, j1) + TriuReads(j0, j1, i0, i1)

\* query_rect(triu_reader.query, i0, i1, j0, j1): the pixels of the full
\* symmetric matrix inside the rectangle
query_rect(i0, i1, j0, j1) ==
    IF i1 <= j0
    THEN TriuQuery(i0, i1, j0, j1)
    ELSE IF <<i0, i1>> = <<j0, j1>>
    THEN LET ts == TriuQuery(i0, i1, i0, i1) IN ts \o Swap(NoDiag(ts))
    ELSE TriuQuery(i0, i1, j0, j1) \o Swap(NoDiag(TriuQuery(j0, j1, i0, i1)))

-----------------------------------------------------------------------------
(* Matrix assembly *)

\* a NaN-aware product of optional numbers
Mul(a, b) == IF IsNone(a) \/ IsNone(b) THEN None ELSE Some(Val(a) * Val(b))

\* coo_matrix((v, (i - i0, j - i0)), (i1 - i0, j1 - j0))
CooRowOffset(ts, i0, i1, j0, j1) ==
    [shape |-> <<i1 - i0, j1 - j0>>,
     row   |-> [k \in 1..Len(ts) |-> ts[k].bin1_id - i0],
     col   |-> [k \in 1..Len(ts) |-> ts[k].bin2_id - i0],
     data  |-> [k \in 1..Len(ts) |-> ts[k].count]]

\* coo_matrix((v, (i - i0, j - j0)), (i1 - i0, j1 - j0))
Coo(ts, i0, i1, j0, j1) ==
    [shape |-> <<i1 - i0, j1 - j0>>,
     row   |-> [k \in 1..Len(ts) |-> ts[k].bin1_id - i0],
     col   |-> [k \in 1..Len(ts) |-> ts[k].bin2_id - j0],
     data  |-> [k \in 1..Len(ts) |-> ts[k].count]]

RECURSIVE SumSeq(_)
SumSeq(s) == IF s = << >> THEN 0 ELSE Head(s) + SumSeq(Tail(s))

\* coo_matrix.toarray(): entries at the same position add up, other cells are 0
ToArray(mat) ==
    [r \in 0..(mat.shape[1] - 1) |->
        [c \in 0..(mat.shape[2] - 1) |->
            SumSeq(Column(SelectSeq([k \in 1..Len(mat.data) |->
                                        [row |-> mat.row[k], col |-> mat.col[k],
                                         data |-> mat.data[k]]],
                                    LAMBDA e : e.row = r /\ e.col = c), "data"))]]

\* bias1 = weights[i0:i1]
Bias1Unsliced(i0, i1) == Val(weight)

Bias1(i0, i1) == PySlice(Val(weight), Some(i0), Some(i1))

\* bias2 = bias1 if (i0, i1) == (j0, j1) else weights[j0:j1]
Bias2(i0, i1, j0, j1) ==
    IF <<i0, i1>> = <<j0, j1>> THEN Bias1(i0, i1)
    ELSE PySlice(Val(weight), Some(j0), Some(j1))

\* mat.data = bias1[mat.row] * bias2[mat.col] * mat.data
BalanceCoo(mat, bias1, bias2) ==
    [mat EXCEPT !.data = [k \in 1..Len(mat.data) |->
        At(bias1, mat.row[k]) * At(bias2, mat.col[k]) * mat.data[k]]]

\* numpy broadcasting of two axis lengths: None when they do not broadcast
Broadcast(a, b) ==
    IF a = b THEN Some(a)
    ELSE IF a = 1 THEN Some(b)
    ELSE IF b = 1 THEN Some(a)
    ELSE None

\* arr * np.outer(bias1, bias2), for axis lengths that broadcast
BalanceArray(arr, shape, bias1, bias2) ==
    LET nr == Val(Broadcast(shape[1], Len(bias1)))
        nc == Val(Broadcast(shape[2], Len(bias2)))
    IN  [r \in 0..(nr - 1) |->
            [c \in 0..(nc - 1) |->
                arr[IF shape[1] = 1 THEN 0 ELSE r][IF shape[2] = 1 THEN 0 ELSE c]
                  * At(bias1, IF Len(bias1) = 1 THEN 0 ELSE r)
                  * At(bias2, IF Len(bias2) = 1 THEN 0 ELSE c)]]

MissingWeights == "ValueError: No column 'bins/weight' found"
KeyErrorWeight == "KeyError: weight"
BroadcastError == "ValueError: operands could not be broadcast together"

\* the check matrix() makes before it reads: balance and 'weight' not in h5['bins']
WeightCheckOmitted(balance) == FALSE

WeightCheck(balance) == balance /\ IsNone(weight)

Raise(err, reads) == [ok |-> FALSE, error |-> err, reads |-> reads, value |-> None]
Return(v, reads) == [ok |-> TRUE, error |-> "", reads |-> reads, value |-> Some(v)]

\* the as_pixels branch of matrix()
matrix_pixels(i0, i1, j0, j1, balance, join) ==
    LET ts == TriuQuery(i0, i1, j0, j1)
        df == [k \in 1..Len(ts) |-> ts[k] @@ ("idx" :> (k - 1))]
        weights == get(Val(weight), Min(i0, j0), Some(Max(i1, j1)))
        df2 == annotate(df, weights, TRUE)
        balanced(k) ==
            LET row == SelectSeq(df2, LAMBDA r : r.idx = df[k].idx)
            IN  IF Len(row) # 1 THEN None
                ELSE Mul(Mul(row[1].val1, row[1].val2), Some(row[1].count))
        dfb == IF balance
               THEN [k \in 1..Len(df) |-> df[k] @@ ("balanced" :> balanced(k))]
               ELSE df
        binrows == get(bins, Min(i0, j0), Some(Max(i1, j1)))
        reads == TriuReads(i0, i1, j0, j1)
    IN  IF balance /\ IsNone(weight) THEN Raise(KeyErrorWeight, reads)
        ELSE Return(IF join THEN annotate(dfb, binrows, TRUE) ELSE dfb, reads)

\* the dense branch of matrix()
matrix_dense(i0, i1, j0, j1, balance) ==
    LET mat == Coo(query_rect(i0, i1, j0, j1), i0, i1, j0, j1)
        arr == ToArray(mat)
        reads == RectReads(i0, i1, j0, j1)
    IN  IF ~balance THEN Return(arr, reads)
        ELSE IF IsNone(weight) THEN Raise(KeyErrorWeight, reads)
        ELSE IF \/ IsNone(Broadcast(mat.shape[1], Len(Bias1(i0, i1))))
                \/ IsNone(Broadcast(mat.shape[2], Len(Bias2(i0, i1, j0, j1))))
        THEN Raise(BroadcastError, reads)
        ELSE Return(BalanceArray(arr, mat.shape, Bias1(i0, i1), Bias2(i0, i1, j0, j1)), reads)

\* the sparse branch of matrix()
matrix_sparse(i0, i1, j0, j1, balance) ==
    LET mat == Coo(query_rect(i0, i1, j0, j1), i0, i1, j0, j1)
        reads == RectReads(i0, i1, j0, j1)
    IN  IF ~balance THEN Return(mat, reads)
        ELSE IF IsNone(weight) THEN Raise(KeyErrorWeight, reads)
        ELSE Return(BalanceCoo(mat, Bias1(i0, i1), Bias2(i0, i1, j0, j1)), reads)

\* matrix(h5, i0, i1, j0, j1, field, dense, balance, as_pixels, join)
matrix(i0, i1, j0, j1, dense, balance, as_pixels, join) ==
    IF WeightCheck(balance) THEN Raise(MissingWeights, 0)
    ELSE IF as_pixels THEN matrix_pixels(i0, i1, j0, j1, balance, join)
    ELSE IF dense THEN matrix_dense(i0, i1, j0, j1, balance)
    ELSE matrix_sparse(i0, i1, j0, j1, balance)

\* a matrix query: i0 and j0 name a bin or the end of the table, i1 and j1 may
\* reach past the last bin.  A sparse or dense query names at least one row
\* and one column (what coo_matrix makes of an axis of length 0 is scipy's).
Matrix(i0, i1, j0, j1, dense, balance, as_pixels, join) ==
    /\ i0 <= NBins /\ j0 <= NBins
    /\ i0 <= i1 /\ i1 <= NBins + Overhang
    /\ j0 <= j1 /\ j1 <= NBins + Overhang
    /\ IF as_pixels THEN TRUE ELSE i0 < i1 /\ j0 < j1
    /\ call' = [op |-> "matrix", i0 |-> i0, i1 |-> i1, j0 |-> j0, j1 |-> j1,
                dense |-> dense, balance |-> balance, as_pixels |-> as_pixels,
                join |-> join, had_weight |-> ~IsNone(weight)]
    /\ ret' = matrix(i0, i1, j0, j1, dense, balance, as_pixels, join)
    /\ UNCHANGED <<store, extract>>

\* annotate(pixels[plo:phi], bins[blo:bhi]) on rows of the pixel table and a
\* row range of one column of the bin table
Annotate(plo, phi, blo, bhi, replace) ==
    /\ plo <= phi /\ phi <= Len(pixels)
    /\ blo <= bhi /\ bhi <= NBins
    /\ call' = [op |-> "annotate", plo |-> plo, phi |-> phi, blo |-> blo, bhi |-> bhi,
                replace |-> replace]
    /\ ret' = Return(annotate([k \in 1..(phi - plo) |->
                                  pixels[plo + k] @@ ("idx" :> (plo + k - 1))],
                              get(bins, blo, Some(bhi)), replace), 1)
    /\ UNCHANGED <<store, extract>>

\* the upper-triangle coordinates of n bins, in storage order
Triu(n) == {<<a, b>> \in (0..(n - 1)) \X (0..(n - 1)) : a <= b}

PairLess(p, q) == p[1] < q[1] \/ (p[1] = q[1] /\ p[2] < q[2])

RECURSIVE SortedPairs(_)
SortedPairs(S) ==
    IF S = {} THEN << >>
    ELSE LET m == CHOOSE p \in S : \A q \in S \ {p} : PairLess(p, q)
         IN  <<m>> \o SortedPairs(S \ {m})

\* the weight columns of n bins: a bin's weight is 0 or its own, so that a
\* weight read at another bin shows
WeightColumns(n) ==
    {[b \in 1..n |-> IF b \in Z THEN 0 ELSE b + 1] : Z \in SUBSET (1..n)}

\* containers for matrix queries: n unit bins on one chromosome, a weight
\* column or none, and up to MaxPixels pixels sorted by (bin1_id, bin2_id),
\* the k-th with the count k
InitMatrix ==
    \E n \in 1..MaxBins :
    \E w \in {None} \cup {Some(f) : f \in WeightColumns(n)} :
    \E S \in {T \in SUBSET Triu(n) : Cardinality(T) <= MaxPixels} :
        LET ps == SortedPairs(S)
            pix == [k \in 1..Len(ps) |->
                      [bin1_id |-> ps[k][1], bin2_id |-> ps[k][2], count |-> k]]
        IN  /\ chromsizes = <<n>>
            /\ binsize = Some(1)
            /\ bins = BinTable(<<n>>, <<1..(n - 1)>>)
            /\ weight = w
            /\ pixels = pix
            /\ chrom_offset = <<0, n>>
            /\ bin1_offset = Bin1Offset(pix, n)
            /\ call = [op |-> "none"]
            /\ ret = Return(<< >>, 0)
            /\ NoExtract

\* the three output modes of the matrix selector
MatrixSparse(i0, i1, j0, j1, balance) ==
    Matrix(i0, i1, j0, j1, FALSE, balance, FALSE, FALSE)

MatrixDense(i0, i1, j0, j1, balance) ==
    Matrix(i0, i1, j0, j1, TRUE, balance, FALSE, FALSE)

MatrixPixels(i0, i1, j0, j1, balance, join) ==
    Matrix(i0, i1, j0, j1, FALSE, balance, TRUE, join)

QueryCoords == 0..(MaxBins + Overhang)

NextSparse ==
    /\ Idle
    /\ \E i0, i1, j0, j1 \in QueryCoords, balance \in BOOLEAN :
        MatrixSparse(i0, i1, j0, j1, balance)

SpecSparse == InitMatrix /\ [][NextSparse]_vars

\* the sparse queries again, each compared with the query of the swapped ranges
SpecSymmetry == InitMatrix /\ [][NextSparse]_vars

NextDense ==
    /\ Idle
    /\ \E i0, i1, j0, j1 \in QueryCoords, balance \in BOOLEAN :
        MatrixDense(i0, i1, j0, j1, balance)

SpecDense == InitMatrix /\ [][NextDense]_vars

NextPixels ==
    /\ Idle
    /\ \E i0, i1, j0, j1 \in QueryCoords, balance, join \in BOOLEAN :
        MatrixPixels(i0, i1, j0, j1, balance, join)

SpecPixels == InitMatrix /\ [][NextPixels]_vars

NextMatrix == NextSparse \/ NextDense \/ NextPixels

SpecMatrix == InitMatrix /\ [][NextMatrix]_vars

NextAnnotate ==
    /\ Idle
    /\ \E plo, phi \in 0..MaxPixels, blo, bhi \in 0..MaxBins, replace \in BOOLEAN :
        Annotate(plo, phi, blo, bhi, replace)

SpecAnnotate == InitMatrix /\ [][NextAnnotate]_vars

\* containers without a weight column
InitNoWeights == InitMatrix /\ IsNone(weight)

SpecNoWeights == InitNoWeights /\ [][NextMatrix]_vars

-----------------------------------------------------------------------------
(* Row ranges of a table *)

\* get(h5['bins'], lo, hi): lo an integer, hi an integer or None
Get(lo, hi) ==
    /\ call' = [op |-> "get", lo |-> lo, hi |-> hi]
    /\ ret' = Return(get(bins, lo, hi), 1)
    /\ UNCHANGED <<store, extract>>

\* the bounds of a row range: below 0 and past the last row included
RowBounds == (0 - (MaxBins + Overhang))..(MaxBins + Overhang)

NextGet ==
    /\ Idle
    /\ \E lo \in RowBounds, hi \in {None} \cup {Some(h) : h \in RowBounds} :
        Get(lo, hi)

SpecGet == InitMatrix /\ [][NextGet]_vars

-----------------------------------------------------------------------------
(* Region resolution of regions as given *)

KeyErrorChrom == "KeyError: chrom"
NotFound == "NotFound"
InvalidRange == "InvalidRange"

KnownChrom(cid) == cid \in 0..(Len(chromsizes) - 1)

\* parse_region(region, chromsizes): the error it raises, None for a region it
\* lets through
parse_region(cid, start, end) ==
    IF ~KnownChrom(cid) THEN Some(NotFound)
    ELSE IF start > end THEN Some(InvalidRange)
    ELSE None

\* Cooler.extent(region) of a region parse_region rejects
ExtentRejected(cid, start, end) ==
    /\ ~IsNone(parse_region(cid, start, end))
    /\ call' = [op |-> "extent", cid |-> cid, start |-> start, end |-> end, binsize |-> None]
    /\ ret' = [ok |-> FALSE, error |-> Val(parse_region(cid, start, end)), value |-> << >>]
    /\ UNCHANGED <<store, extract>>

\* region_to_extent(h5, chrom_ids, (chrom, start, end), binsize) called with a
\* region as given: chrom_ids[chrom] raises KeyError for an unknown name,
\* before a value is yielded
RegionToExtent(cid, start, end, bsz) ==
    /\ call' = [op |-> "region_to_extent", cid |-> cid, start |-> start, end |-> end,
                binsize |-> bsz]
    /\ ret' = IF ~KnownChrom(cid)
              THEN [ok |-> FALSE, error |-> KeyErrorChrom, value |-> << >>]
              ELSE [ok |-> TRUE, value |-> region_to_extent(cid, start, end, bsz)]
    /\ UNCHANGED <<store, extract>>

NextResolve ==
    /\ Idle
    /\ \E cid \in 0..Len(ChromNames), start \in 0..MaxLen, end \in 0..MaxLen :
        \/ Extent(cid, start, end)
        \/ ExtentRejected(cid, start, end)
        \/ RegionToExtent(cid, start, end, None)
        \/ ~IsNone(binsize) /\ RegionToExtent(cid, start, end, binsize)

SpecResolve == InitRegion /\ [][NextResolve]_vars

-----------------------------------------------------------------------------
(* extractchrom *)

pixels_length == Len(pixels)

\* RangeSelector1D[lo:hi] over a table of n rows (n is info['nnz']): the row
\* bounds it hands to _slice, clamped to the table
RangeSelector1D(lo, hi, n) == <<Max(0, Min(lo, n)), Max(0, Min(hi, n))>>

\* c.pixels()[lo:hi]: the rows lo..hi-1 of the pixel table, labelled with
\* their positions
PixelRows(lo, hi) ==
    LET rows == RangeSelector1D(lo, hi, Len(pixels))
        df == get(pixels, rows[1], Some(rows[2]))
    IN  [k \in 1..Len(df) |-> df[k].val @@ ("idx" :> df[k].idx)]

\* c.pixels(join=True)[lo:hi]: the same rows, their bin ids replaced by the
\* rows of the whole bins table
JoinedPixels(lo, hi) == annotate(PixelRows(lo, hi), get(bins, 0, None), TRUE)

\* (chrom1 == chromosome) & (chrom2 == chromosome) of a joined row
ToKeepChrom1(row) ==
    ~IsNone(row.val1) /\ Val(row.val1).chrom = chromosome

ToKeep(row) ==
    /\ ~IsNone(row.val1) /\ Val(row.val1).chrom = chromosome
    /\ ~IsNone(row.val2) /\ Val(row.val2).chrom = chromosome

\* chunk = min(pixels_length - count, chunksize)
Chunk == Min(pixels_length - count, chunksize)

\* to_keep_positions of the chunk at count: the labels of the joined rows to keep
ToKeepPositions ==
    LET joined_pixels == JoinedPixels(count, count + Chunk)
    IN  {joined_pixels[k].idx : k \in {j \in 1..Len(joined_pixels) : ToKeep(joined_pixels[j])}}

\* sum(to_keep_positions.values)
NumToKeep ==
    Len(SelectSeq(JoinedPixels(count, count + Chunk), ToKeep))

\* pixels[to_keep_positions]: the rows of the chunk with a label to keep
ToKeepPixels ==
    SelectSeq(PixelRows(count, count + Chunk), LAMBDA r : r.idx \in ToKeepPositions)

\* dataset[pos:pos + len(rows)] = rows, on the three datasets of the output
WriteRows(ds, pos, rows) ==
    [k \in 1..Len(ds) |->
        IF pos < k /\ k <= pos + Len(rows)
        THEN [bin1_id |-> rows[k - pos].bin1_id,
              bin2_id |-> rows[k - pos].bin2_id,
              count   |-> rows[k - pos].count]
        ELSE ds[k]]

\* grp.create_dataset(name, (n,), dtype='i8') for bin1_id, bin2_id and count:
\* n rows of zeros
CreateDatasets(n) ==
    [k \in 1..n |-> [bin1_id |-> 0, bin2_id |-> 0, count |-> 0]]

\* the output after /bins, /chroms, /indexes and the attributes are copied
\* from the source; the pixels group does not exist yet
CopiedContainer ==
    [bins |-> bins, chromsizes |-> chromsizes,
     chrom_offset |-> chrom_offset, bin1_offset |-> bin1_offset,
     nbins |-> NBins, nnz |-> Len(pixels), pixels |-> None]

\* one turn of the first loop: count the rows of the chunk to keep
CountChunk ==
    /\ pc = "count"
    /\ count < pixels_length
    /\ chrom_count' = chrom_count + NumToKeep
    /\ count' = count + Chunk
    /\ chunks' = Append(chunks, <<count, count + Chunk>>)
    /\ UNCHANGED <<store, call, ret, pc, chromosome, chunksize, current_kept_pos, dest>>

\* the first loop is over: count = 0, the pixels group and its datasets of
\* chrom_count rows are created, current_kept_pos = 0
CreatePixels ==
    /\ pc = "count"
    /\ ~(count < pixels_length)
    /\ count' = 0
    /\ dest' = [dest EXCEPT !.pixels = Some(CreateDatasets(chrom_count))]
    /\ current_kept_pos' = 0
    /\ chunks' = << >>
    /\ pc' = "copy"
    /\ UNCHANGED <<store, call, ret, chromosome, chunksize, chrom_count>>

\* one turn of the second loop: write the rows of the chunk to keep
CopyChunk ==
    /\ pc = "copy"
    /\ count < pixels_length
    /\ LET to_keep_pixels == ToKeepPixels
           num_to_keep == Len(to_keep_pixels)
       IN  IF num_to_keep > 0
           THEN /\ dest' = [dest EXCEPT !.pixels =
                               Some(WriteRows(Val(dest.pixels), current_kept_pos,
                                              to_keep_pixels))]
                /\ current_kept_pos' = current_kept_pos + num_to_keep
           ELSE UNCHANGED <<dest, current_kept_pos>>
    /\ count' = count + Chunk
    /\ chunks' = Append(chunks, <<count, count + Chunk>>)
    /\ UNCHANGED <<store, call, ret, pc, chromosome, chunksize, chrom_count>>

\* the second loop is over: the files are closed
CloseFiles ==
    /\ pc = "copy"
    /\ ~(count < pixels_length)
    /\ pc' = "done"
    /\ UNCHANGED <<store, call, ret, chromosome, chunksize, count, chrom_count,
                   current_kept_pos, chunks, dest>>

\* the chromosome sizes of the source containers: one or two chromosomes of
\* unit bins, MaxBins bins at most
ExtractSizes ==
    {<<a>> : a \in 1..MaxBins}
        \cup {<<a, b>> : a \in 1..MaxBins, b \in 1..MaxBins}

\* extractchrom starts on a container of one or two chromosomes of unit bins
\* with up to MaxPixels + 1 sorted pixels, the k-th with the count k; the
\* copies of lines 50-55 are made and the first loop is about to start
InitExtract ==
    \E sizes \in {z \in ExtractSizes : SumSeq(z) <= MaxBins} :
    \E S \in {T \in SUBSET Triu(SumSeq(sizes)) : Cardinality(T) <= MaxPixels + 1} :
    \E chrom \in 0..(Len(ChromNames) - 1), size \in 1..MaxChunk :
        LET ps == SortedPairs(S)
            pix == [k \in 1..Len(ps) |->
                      [bin1_id |-> ps[k][1], bin2_id |-> ps[k][2], count |-> k]]
            tbl == BinTable(sizes, [c \in 1..Len(sizes) |-> 1..(sizes[c] - 1)])
        IN  /\ chromsizes = sizes
            /\ binsize = Some(1)
            /\ bins = tbl
            /\ weight = None
            /\ pixels = pix
            /\ chrom_offset = ChromOffset(tbl, Len(sizes))
            /\ bin1_offset = Bin1Offset(pix, Len(tbl))
            /\ call = [op |-> "extractchrom"]
            /\ ret = Return(<< >>, 0)
            /\ pc = "count"
            /\ chromosome = chrom
            /\ chunksize = size
            /\ count = 0
            /\ chrom_count = 0
            /\ current_kept_pos = 0
            /\ chunks = << >>
            /\ dest = CopiedContainer

NextExtract == CountChunk \/ CreatePixels \/ CopyChunk \/ CloseFiles

SpecExtract == InitExtract /\ [][NextExtract]_vars

-----------------------------------------------------------------------------
(* Properties of region resolution *)

IsExtent == call.op = "extent"

\* the bin ids of the chromosome a resolved region names
ChromBinIds(cid) == At(chrom_offset, cid)..(At(chrom_offset, cid + 1) - 1)

\* bin b and the half-open interval [start, end) share a base pair
Overlaps(b, start, end) ==
    Max(At(bins, b).start, start) < Min(At(bins, b).end, end)

\* every bin of the container has the width w, but for the last of a chromosome
UniformWidth(w) ==
    \A k \in 1..Len(bins) :
        /\ bins[k].start % w = 0
        /\ bins[k].end = Min(bins[k].start + w, At(chromsizes, bins[k].chrom))

\* C4: for every valid region, region_to_extent returns (lo, hi) with
\* 0 <= lo <= hi <= total_bins, with a bin size (uniform branch) and without
\* one (binary-search branch).
C4_ExtentWithinBins ==
    IsExtent =>
        /\ 0 <= ret.value[1]
        /\ ret.value[1] <= ret.value[2]
        /\ ret.value[2] <= NBins

C4_Witness ==
    /\ IsExtent
    /\ ~IsNone(call.binsize)
    /\ call.cid = 1
    /\ call.start > 0
    /\ ret.value[1] < ret.value[2]
    /\ ret.value[2] = NBins

\* C5: in a container of uniform bin width w, Cooler.extent (region_to_extent
\* without a bin size) resolves every valid region to
\* (chrom_offset[cid] + floor(start/w), chrom_offset[cid] + ceil(end/w)).
C5_ExtentMatchesUniformFormula ==
    (IsExtent /\ IsNone(call.binsize)) =>
        \A w \in 1..MaxLen :
            UniformWidth(w) =>
                ret.value = <<At(chrom_offset, call.cid) + FloorDiv(call.start, w),
                              At(chrom_offset, call.cid) + CeilDiv(call.end, w)>>

\* C6: without a bin size, the returned range [lo, hi) holds every bin of the
\* chromosome that overlaps the half-open interval [start, end).
C6_SearchCoversOverlap ==
    (IsExtent /\ IsNone(call.binsize)) =>
        \A b \in ChromBinIds(call.cid) :
            Overlaps(b, call.start, call.end) =>
                (ret.value[1] <= b /\ b < ret.value[2])

C6_Witness ==
    /\ IsExtent
    /\ IsNone(call.binsize)
    /\ IsNone(binsize)
    /\ \A w \in 1..MaxLen : ~UniformWidth(w)
    /\ call.cid = 1
    /\ Cardinality({b \in ChromBinIds(call.cid) : Overlaps(b, call.start, call.end)}) = 2
    /\ Cardinality(ChromBinIds(call.cid)) = 3
    /\ ret.value[2] - ret.value[1] = 2

-----------------------------------------------------------------------------
(* Properties of the annotator *)

IsAnnotate == call.op = "annotate"

\* the pixel rows an annotate call was given
AnnotateInput == SubSeq(pixels, call.plo + 1, call.phi)

\* what a join on bin id against the whole frame gives a row with this bin id
Joined(id) ==
    IF call.blo <= id /\ id < call.bhi THEN Some(At(bins, id)) ELSE None

\* C2: annotate never drops or duplicates rows: when every bin id of the input
\* lies within [0, length of the bin frame), the output has the rows of the
\* input, in the same order (the empty input included).
C2_AnnotateKeepsRows ==
    (/\ IsAnnotate
     /\ \A k \in 1..Len(AnnotateInput) :
           /\ AnnotateInput[k].bin1_id < call.bhi - call.blo
           /\ AnnotateInput[k].bin2_id < call.bhi - call.blo)
    => /\ Len(Val(ret.value)) = call.phi - call.plo
       /\ \A k \in 1..Len(Val(ret.value)) :
             /\ Val(ret.value)[k].idx = call.plo + k - 1
             /\ Val(ret.value)[k].count = AnnotateInput[k].count

C2_Witness ==
    /\ IsAnnotate
    /\ call.blo = 1 /\ call.bhi = 3
    /\ Len(AnnotateInput) = 2
    /\ \A k \in 1..2 : AnnotateInput[k].bin1_id < 2 /\ AnnotateInput[k].bin2_id < 2
    /\ Len(Val(ret.value)) = 2
    /\ \E k \in 1..2 : IsNone(Val(ret.value)[k].val1)

\* C3: slicing the bin frame to the referenced window changes nothing: every
\* output row carries the metadata of the bin whose id is its bin1_id, and of
\* the bin whose id is its bin2_id, as a join against the unsliced frame gives.
C3_SliceIsOptimization ==
    IsAnnotate =>
        /\ Len(Val(ret.value)) = Len(AnnotateInput)
        /\ \A k \in 1..Len(AnnotateInput) :
              /\ Val(ret.value)[k].val1 = Joined(AnnotateInput[k].bin1_id)
              /\ Val(ret.value)[k].val2 = Joined(AnnotateInput[k].bin2_id)

-----------------------------------------------------------------------------
(* Properties of the matrix selector *)

IsMatrix == call.op = "matrix"
IsPixelsMode == IsMatrix /\ call.as_pixels
IsDenseMode == IsMatrix /\ ~call.as_pixels /\ call.dense
IsSparseMode == IsMatrix /\ ~call.as_pixels /\ ~call.dense

\* weight[b] of the bin table
WeightOf(b) == At(Val(weight), b)

\* C1: in table mode with balancing, every returned row (bin1_id, bin2_id,
\* value) has balanced = weight[bin1_id] * weight[bin2_id] * value.
C1_BalancedColumn ==
    (IsPixelsMode /\ call.balance /\ ~call.join /\ ret.ok) =>
        \A k \in 1..Len(Val(ret.value)) :
            LET r == Val(ret.value)[k]
            IN  r.balanced = Some(WeightOf(r.bin1_id) * WeightOf(r.bin2_id) * r.count)

\* C7: balancing requested without a weight column: every mode fails with the
\* missing-weights error before a pixel row is read, returns nothing, and the
\* container still has no weight column.
C7_MissingWeightsUpFront ==
    (IsMatrix /\ call.balance /\ ~call.had_weight) =>
        /\ ~ret.ok
        /\ ret.error = MissingWeights
        /\ ret.reads = 0
        /\ IsNone(ret.value)
        /\ IsNone(weight)

C7_Witness ==
    /\ IsDenseMode
    /\ call.balance
    /\ ~call.had_weight
    /\ Len(pixels) = 2
    /\ call.i0 = 0 /\ call.i1 = NBins /\ call.j0 = 0 /\ call.j1 = NBins
    /\ ret.error = MissingWeights

\* C8: a query whose i1 or j1 exceeds the bin count never produces an error, in
\* any mode, balanced or not (balancing a container that has weights).
C8_OutOfBoundsNeverFails ==
    (/\ IsMatrix
     /\ call.i1 > NBins \/ call.j1 > NBins
     /\ call.balance => call.had_weight)
    => ret.ok

\* C9: the sparse result has the shape (i1 - i0, j1 - j0); the entry of pixel
\* (r, c, v) sits at (r - i0, c - j0) and holds v, or weight[r] * weight[c] * v
\* when balanced, so it is 0 when the weight of r or of c is 0.
C9_SparseEntries ==
    (IsSparseMode /\ ret.ok) =>
        LET mat == Val(ret.value)
            ts == query_rect(call.i0, call.i1, call.j0, call.j1)
        IN  /\ mat.shape = <<call.i1 - call.i0, call.j1 - call.j0>>
            /\ Len(mat.data) = Len(ts)
            /\ Len(mat.row) = Len(ts)
            /\ Len(mat.col) = Len(ts)
            /\ \A k \in 1..Len(ts) :
                  /\ mat.row[k] = ts[k].bin1_id - call.i0
                  /\ mat.col[k] = ts[k].bin2_id - call.j0
                  /\ mat.data[k] =
                        IF call.balance
                        THEN WeightOf(ts[k].bin1_id) * WeightOf(ts[k].bin2_id) * ts[k].count
                        ELSE ts[k].count
                  /\ (/\ call.balance
                      /\ WeightOf(ts[k].bin1_id) = 0 \/ WeightOf(ts[k].bin2_id) = 0)
                     => mat.data[k] = 0

C9_Witness ==
    /\ IsSparseMode
    /\ call.balance
    /\ ret.ok
    /\ call.i0 = 1 /\ call.j0 = 0 /\ call.i1 = 3 /\ call.j1 = 2
    /\ Len(Val(ret.value).data) = 2
    /\ \E k \in 1..2 : Val(ret.value).data[k] = 0
    /\ \E k \in 1..2 : Val(ret.value).data[k] > 0

\* C10: for every query rectangle, balanced or not, the dense result is the
\* sparse result of the same query laid out as a full array.
C10_DenseIsSparseMaterialized ==
    IsDenseMode =>
        LET sp == matrix(call.i0, call.i1, call.j0, call.j1, FALSE, call.balance,
                         FALSE, FALSE)
        IN  /\ ret.ok = sp.ok
            /\ ret.ok => Val(ret.value) = ToArray(Val(sp.value))

\* the rows of a table-mode result put back into a sparse matrix: rows
\* bin1_id - i0, columns bin2_id - j0, values the count or the balanced column
Reassembled(df, i0, i1, j0, j1, balance) ==
    [shape |-> <<i1 - i0, j1 - j0>>,
     row   |-> [k \in 1..Len(df) |-> df[k].bin1_id - i0],
     col   |-> [k \in 1..Len(df) |-> df[k].bin2_id - j0],
     data  |-> [k \in 1..Len(df) |->
                   IF balance THEN Val(df[k].balanced) ELSE df[k].count]]

\* C11: for every query rectangle, the one that straddles or lies below the
\* diagonal included, the rows of the table mode put back into a sparse matrix
\* equal the matrix the sparse mode returns for the same query, balanced and
\* unbalanced.
C11_TableRoundTrip ==
    (IsPixelsMode /\ ~call.join /\ call.i0 < call.i1 /\ call.j0 < call.j1) =>
        LET sp == matrix(call.i0, call.i1, call.j0, call.j1, FALSE, call.balance,
                         FALSE, FALSE)
        IN  /\ ret.ok = sp.ok
            /\ ret.ok =>
                  /\ call.balance =>
                        \A k \in 1..Len(Val(ret.value)) :
                            ~IsNone(Val(ret.value)[k].balanced)
                  /\ ToArray(Reassembled(Val(ret.value), call.i0, call.i1,
                                         call.j0, call.j1, call.balance))
                        = ToArray(Val(sp.value))

\* the cells of a sparse matrix that hold an entry, and the value of a cell:
\* the sum of its entries, 0 for a cell without one
Cells(mat) == {<<mat.row[k], mat.col[k]>> : k \in 1..Len(mat.data)}

CellValue(mat, r, c) ==
    SumSeq(Column(SelectSeq([k \in 1..Len(mat.data) |->
                                [row |-> mat.row[k], col |-> mat.col[k],
                                 data |-> mat.data[k]]],
                            LAMBDA e : e.row = r /\ e.col = c), "data"))

-----------------------------------------------------------------------------
(* Properties of the table selector *)

IsGet == call.op = "get"

\* C13: get(table, lo, hi) never fails for an out-of-bounds lo or hi: it
\* returns exactly the rows at the positions [max(0, lo), min(hi, row_count)),
\* the k-th labelled with its position in the table; hi = None reads to the
\* end of the table.
C13_GetClamps ==
    IsGet =>
        /\ ret.ok
        /\ LET a == Max(0, call.lo)
               b == IF IsNone(call.hi) THEN Len(bins) ELSE Min(Val(call.hi), Len(bins))
               rows == Val(ret.value)
           IN  /\ Len(rows) = Max(0, b - a)
               /\ \A k \in 1..Len(rows) :
                     /\ rows[k].idx = a + k - 1
                     /\ rows[k].val = At(bins, a + k - 1)

-----------------------------------------------------------------------------
(* Properties of region resolution, regions as given *)

IsResolve == call.op \in {"extent", "region_to_extent"}

\* C14: region resolution yields a complete extent or an error, never both: an
\* unknown chromosome produces a not-found error, a region with start > end an
\* invalid-range error, no bin id is returned in either case, and no returned
\* pair has lo > hi.
C14_ExtentOrError ==
    IsResolve =>
        /\ ~KnownChrom(call.cid) =>
              ~ret.ok /\ ret.error \in {NotFound, KeyErrorChrom}
        /\ (KnownChrom(call.cid) /\ call.start > call.end) =>
              ~ret.ok /\ ret.error = InvalidRange
        /\ ~ret.ok => ret.value = << >>
        /\ ret.ok => ret.value[1] <= ret.value[2]

-----------------------------------------------------------------------------
(* Properties of extractchrom *)

OnChromosome(b) == At(bins, b).chrom = chromosome

\* the input pixels with both bins on the chosen chromosome, in input order
Kept ==
    SelectSeq(pixels, LAMBDA t : OnChromosome(t.bin1_id) /\ OnChromosome(t.bin2_id))

\* the chunks read so far each hold a row, follow one another from row 0 and
\* end at count
Contiguous ==
    /\ \A k \in 1..Len(chunks) :
          /\ chunks[k][1] < chunks[k][2]
          /\ chunks[k][2] - chunks[k][1] <= chunksize
          /\ chunks[k][1] = (IF k = 1 THEN 0 ELSE chunks[k - 1][2])
    /\ count = (IF chunks = << >> THEN 0 ELSE chunks[Len(chunks)][2])

\* C15: the two-pass chunked copy terminates and fills the output exactly:
\* both loops advance count by a chunk of at least one row until count is the
\* pixel count (every turn of a loop adds a chunk of at least one row and count
\* never passes the pixel count, so a loop makes no more turns than there are
\* rows), the chunks are contiguous and cover every row once; current_kept_pos
\* never exceeds the chrom_count of the first pass and equals it at the end,
\* and the output datasets hold exactly the input pixels with both bins on
\* the chosen chromosome, in input order, for every chunk size.
C15_TwoPassCopy ==
    /\ count <= pixels_length
    /\ Contiguous
    /\ pc \in {"copy", "done"} =>
          /\ chrom_count = Len(Kept)
          /\ Len(Val(dest.pixels)) = chrom_count
          /\ current_kept_pos <= chrom_count
          /\ SubSeq(Val(dest.pixels), 1, current_kept_pos)
                = SubSeq(Kept, 1, current_kept_pos)
    /\ pc = "done" =>
          /\ count = pixels_length
          /\ current_kept_pos = chrom_count
          /\ Val(dest.pixels) = Kept

C15_Witness ==
    /\ pc = "done"
    /\ chunksize = 2
    /\ Len(pixels) = 3
    /\ Len(chunks) = 2
    /\ Len(chromsizes) = 2
    /\ chromosome = 1
    /\ chrom_count = 2
    /\ current_kept_pos = 2
    /\ pixels[1].bin1_id < At(chrom_offset, 1) /\ pixels[1].bin2_id >= At(chrom_offset, 1)
    /\ Val(dest.pixels) = <<pixels[2], pixels[3]>>

\* C16: the container extractchrom writes satisfies the storage invariant: its
\* bin1_offset is non-decreasing, its last element is the number of rows of
\* the output pixel table, bin1_offset[b] is the first output row with
\* bin1_id = b, and the nnz attribute is the output row count.
C16_OutputStorageInvariant ==
    pc = "done" =>
        LET out == Val(dest.pixels)
            off == dest.bin1_offset
        IN  /\ \A b \in 1..(Len(off) - 1) : off[b] <= off[b + 1]
            /\ off[Len(off)] = Len(out)
            /\ off = Bin1Offset(out, dest.nbins)
            /\ dest.nnz = Len(out)

====
